---- MODULE Spec2Model ----
(***************************************************************************)
(* The scraping-and-caching pipeline of AI-ENGINE-SEARCH                   *)
(* (src/src/app/api/utils/scraper.ts) and the browser-launching scrape     *)
(* functions of the chat route (src/src/app/api/chat/route.ts) and of the  *)
(* earlier scraper revision (src/unnamed/part_002).                        *)
(*                                                                         *)
(* Every `await` of the code is one step of a call, so concurrent calls    *)
(* interleave exactly where the event loop lets them.  The outside world   *)
(* (web pages, the search engine, the browser, the Redis store) answers    *)
(* every request nondeterministically: with a failure or with one of a     *)
(* few representative payloads.                                            *)
(*                                                                         *)
(* Strings whose length matters are kept as records                        *)
(*   [s |-> identity, n |-> length, ws |-> removable whitespace]           *)
(* so that the 40,000 and 1,000,000 character caps keep their real value.  *)
(* The Redis client is modelled by the type the call sites declare for it  *)
(* (redis.get<string>: string | null): get returns what set stored.        *)
(*                                                                         *)
(* The chat handler (POST of route.ts and of its later revision in         *)
(* src/unnamed/part_003) and the rate-limit middleware (src/middleware.ts) *)
(* use the same variables under their own initial states, ChatInit and     *)
(* MwInit: there the store holds the chat answers, or the limiter's        *)
(* counters.  The chat handler reads its cache untyped and serializes the  *)
(* value again for the response, so its read is modelled as handing back   *)
(* the stored result as an object.                                         *)
(*                                                                         *)
(* The chat page (src/unnamed/part_004 with the input area of part_001)    *)
(* starts from PageInit: there `browser` is the React state of the page    *)
(* (message, messages, isLoading), each call is one invocation of          *)
(* handleSend, and the code between two awaits of an invocation is one     *)
(* step, as React applies the state updates of one such stretch together.  *)
(***************************************************************************)
EXTENDS Integers, Sequences, FiniteSets, TLC

VARIABLES
    redis,      \* the key/value store: key -> {} (absent) or {[val, ex]}
    origin,     \* history: url -> the object returned by the call that wrote the structured entry
    pc,         \* call -> the await the call is suspended at
    loc,        \* call -> its local variables
    browser,    \* call -> state of the browser instance it launched
    out,        \* call -> how the call ended
    obs         \* call -> history of its external requests

vars == <<redis, origin, pc, loc, browser, out, obs>>

\* ---------------------------------------------------------------- bounds

NumCalls == 2

Calls == 1..NumCalls

\* ------------------------------------------------------ program constants

MAX_CACHE_SIZE == 1000000

CACHE_EXPIRATION == 7 * 24 * 60 * 60

MAX_CONTENT_LENGTH == 40000

\* ------------------------------------------------------------------ text

Null == "<null>"

Min(a, b) == IF a <= b THEN a ELSE b

T(s, n, ws) == [s |-> s, n |-> n, ws |-> ws]

EmptyText == T("", 0, 0)

\* JavaScript truthiness of a string: non-empty
Truthy(t) == t.n > 0

\* text.replace(/\s+/g, ' ').replace(/\n+/g, ' ').trim()
cleanText(t) ==
    IF t.n - t.ws = 0 THEN EmptyText ELSE T(t.s, t.n - t.ws, 0)

\* String.prototype.slice(0, k)
Slice(t, k) ==
    IF t.n <= k THEN t ELSE T(t.s, k, Min(t.ws, k))

\* ---------------------------------------------------------------- markup

Selectors == <<"article", "main", ".content", "#content", ".post", ".article", "[role=main]">>

NoCandidates == [i \in 1..Len(Selectors) |-> EmptyText]

\* the empty string as markup
NoHtml ==
    [id |-> "", len |-> 0, has |-> {}, title |-> EmptyText, meta |-> EmptyText,
     h1 |-> EmptyText, h2 |-> EmptyText, cand |-> NoCandidates, body |-> EmptyText,
     p |-> EmptyText, li |-> EmptyText]

\* a static page: two candidate containers whose normalized texts tie
PageStatic ==
    [id |-> "static", len |-> 900, has |-> {},
     title |-> T("title", 12, 2), meta |-> T("meta", 30, 0),
     h1 |-> T("h1", 20, 3), h2 |-> T("h2", 0, 0),
     cand |-> [NoCandidates EXCEPT ![1] = T("article", 300, 20), ![2] = T("main", 280, 0)],
     body |-> T("body", 700, 60), p |-> T("p", 250, 10), li |-> EmptyText]

\* a client-side rendered page whose main text exceeds the content cap
PageDynamic ==
    [id |-> "spa", len |-> 60000, has |-> {"data-reactroot", "react"},
     title |-> T("title", 8, 0), meta |-> EmptyText,
     h1 |-> T("h1", 10, 0), h2 |-> T("h2", 25, 5),
     cand |-> [NoCandidates EXCEPT ![2] = T("main", 50000, 100), ![7] = T("role", 400, 0)],
     body |-> T("body", 52000, 300), p |-> T("p", 45000, 0), li |-> T("li", 900, 100)]

\* a page larger than the raw-markup cache limit, with no candidate container
PageHuge ==
    [id |-> "huge", len |-> 1200000, has |-> {},
     title |-> T("title", 5, 0), meta |-> T("meta", 9, 1),
     h1 |-> EmptyText, h2 |-> EmptyText,
     cand |-> NoCandidates,
     body |-> T("body", 1100000, 5000), p |-> T("p", 1000000, 0), li |-> EmptyText]

\* non-empty markup that carries no text at all, only a script tag
PageBlank ==
    [NoHtml EXCEPT !.id = "blank", !.len = 50, !.has = {"<script src="}, !.cand = [NoCandidates EXCEPT ![3] = T("content", 4, 4)]]

Pages == {PageStatic, PageDynamic, PageHuge, PageBlank}

\* rawHtml.slice(0, k): the text of a k-character prefix is at most k characters
HtmlSlice(h, k) ==
    IF h.len <= k THEN h
    ELSE [h EXCEPT !.len = k,
                   !.cand = [i \in 1..Len(Selectors) |-> Slice(h.cand[i], k)],
                   !.body = Slice(h.body, k)]

\* ------------------------------------------------------- queries and URLs

UrlA == "https://a.test/"

UrlB == "https://b.test/"

Urls == {UrlA, UrlB}

\* "https://a.test" is a URL that the URL parser normalizes; "cats" is free text
Queries == {"https://a.test", UrlB, "cats"}

\* new URL(query) does not throw
IsUrl(q) == q \in {"https://a.test", UrlA, UrlB}

\* new URL(query).toString()
UrlToString(q) == IF q = "https://a.test" THEN UrlA ELSE q

\* ------------------------------------------------------- ScrapedContent

\* mutant: the fresh object does not take the URL of the call
NewScrapedContent_NoUrl(url) ==
    [url |-> "", title |-> EmptyText, headings |-> [h1 |-> EmptyText, h2 |-> EmptyText],
     metaDescription |-> EmptyText, content |-> EmptyText, error |-> Null]

NewScrapedContent(url) ==
    [url |-> url, title |-> EmptyText, headings |-> [h1 |-> EmptyText, h2 |-> EmptyText],
     metaDescription |-> EmptyText, content |-> EmptyText, error |-> Null]

\* mutant: the no-result object carries the message of the failed-scrape branch
NoResultsContent_WrongMessage ==
    [url |-> "", title |-> EmptyText, headings |-> [h1 |-> EmptyText, h2 |-> EmptyText],
     metaDescription |-> EmptyText, content |-> EmptyText,
     error |-> "Failed to scrape the content"]

NoResultsContent ==
    [url |-> "", title |-> EmptyText, headings |-> [h1 |-> EmptyText, h2 |-> EmptyText],
     metaDescription |-> EmptyText, content |-> EmptyText,
     error |-> "No results found for the query"]

\* JSON.stringify(scrapedContent): the members in declaration order
JSONstringify(sc) ==
    <<sc.url, sc.title, sc.headings.h1, sc.headings.h2, sc.metaDescription, sc.content, sc.error>>

\* JSON.parse(cached)
JSONparse(s) ==
    [url |-> s[1], title |-> s[2], headings |-> [h1 |-> s[3], h2 |-> s[4]],
     metaDescription |-> s[5], content |-> s[6], error |-> s[7]]

\* ----------------------------------------------------------------- cache

Namespaces == {"scrapeRawHtml", "scrapedContent"}

Keys == Namespaces \X Urls

RawKey(url) == <<"scrapeRawHtml", url>>

\* mutant: the structured-content key leaves the URL out
ContentKey_SharedKey(url) == <<"scrapedContent", UrlA>>

ContentKey(url) == <<"scrapedContent", url>>

\* mutant: the type test never recognizes a cached value
IsString_Never(r) == FALSE

\* typeof cached === 'string'
IsString(r) == r # {}

Stored(r) == (CHOOSE e \in r : TRUE).val

Entry(v) == {[val |-> v, ex |-> CACHE_EXPIRATION]}


\* get(key): what set stored, or null
RedisGet(key) == redis[key]

\* set(key, value, {ex: CACHE_EXPIRATION})
RedisSet(key, v) == [redis EXCEPT ![key] = Entry(v)]

\* -------------------------------------------------------------- classifier

\* the substrings that suggest client-side rendering
Indicators ==
    {"window.__INITIAL_STATE__", "window.__NUXT__", "window.__NEXT_DATA__", "react", "angular",
     "vue", "_next/static", "data-reactroot", "data-v-", "<script src="}

\* mutant: only the React root attribute counts as an indicator
needsPuppeteer_ReactRootOnly(html) == "data-reactroot" \in html.has

\* [...].some(indicator => html.includes(indicator))
needsPuppeteer(html) == \E indicator \in Indicators : indicator \in html.has

\* return needsPuppeteer ? "puppeteer" : "cheerio"
MethodFor(html) == IF needsPuppeteer(html) THEN "puppeteer" ELSE "cheerio"

\* mutant: a failed probe selects the lightweight fetch
MethodOnProbeFailure_Cheerio == "cheerio"

\* the catch branch of determineScrapingMethod
MethodOnProbeFailure == "puppeteer"

\* ------------------------------------------------------- content extractor

RECURSIVE LongestFrom_LaterWins(_, _, _)
\* mutant: a text of equal length replaces mainText as well
LongestFrom_LaterWins(cand, i, mainText) ==
    IF i > Len(Selectors) THEN mainText
    ELSE LET text == cleanText(cand[i])
         IN  LongestFrom_LaterWins(cand, i + 1, IF text.n >= mainText.n THEN text ELSE mainText)

RECURSIVE LongestFrom(_, _, _)
\* the selector loop of extractMainContent: a strictly longer text replaces mainText
LongestFrom(cand, i, mainText) ==
    IF i > Len(Selectors) THEN mainText
    ELSE LET text == cleanText(cand[i])
         IN  LongestFrom(cand, i + 1, IF text.n > mainText.n THEN text ELSE mainText)

extractMainContent(rawHtml) ==
    LET mainText == LongestFrom(rawHtml.cand, 1, EmptyText)
    IN  IF ~Truthy(mainText) THEN cleanText(rawHtml.body) ELSE mainText

\* mutant: the content is not cut
LimitContent_Uncut(mainContent) == mainContent

\* mainContent.slice(0, 40000)
LimitContent(mainContent) == Slice(mainContent, MAX_CONTENT_LENGTH)

\* steps 2) and 3) of scrapeURL: the fields assigned before the cache write
Extracted(sc, rawHtml) ==
    [sc EXCEPT !.title = cleanText(cleanText(rawHtml.title)),
               !.metaDescription = cleanText(rawHtml.meta),
               !.headings = [h1 |-> cleanText(rawHtml.h1), h2 |-> cleanText(rawHtml.h2)],
               !.content = LimitContent(extractMainContent(rawHtml))]

\* if (rawHtml) { ... redis.set(cacheKey, truncated) }
ShouldCacheRaw(rawHtml) == rawHtml.len > 0

\* mutant: the markup is stored whole
Truncated_Whole(rawHtml) == rawHtml

\* rawHtml.slice(0, MAX_CACHE_SIZE)
Truncated(rawHtml) == HtmlSlice(rawHtml, MAX_CACHE_SIZE)

\* the object the catch block of scrapeURL returns
CaughtContent(sc) == [sc EXCEPT !.error = "Failed to scrape URL"]

\* the object scrapeURL returns when getRawHtml gave the empty string
FetchFailedContent(sc) == [sc EXCEPT !.error = "Failed to fetch raw HTML."]

\* the object scrapeAndSearch returns when scrapeURL(topUrl) reported an error
RewrappedContent(sc) == [sc EXCEPT !.error = "Failed to scrape the content"]

\* if (scrapedContent.error): a non-null, non-empty string
HasError(sc) == sc.error # Null /\ sc.error # ""

\* ---------------------------------------------------------- search resolver

Result(title, link) == [title |-> title, link |-> link]

\* result pages the search engine may answer with: the div.g blocks in order
SearchPages ==
    { << >>,
      << Result("", UrlA) >>,
      << Result("Google", "https://www.google.com/maps"), Result("B", UrlB) >>,
      << Result("A", UrlA), Result("B", UrlB) >> }

\* link.includes("google.com")
IsSelfLink(link) == link = "https://www.google.com/maps"

\* title && link && !link.includes("google.com")
KeepResult(r) == r.title # "" /\ r.link # "" /\ ~IsSelfLink(r.link)

RECURSIVE CollectResults(_, _, _, _)
\* the .each loop of getTopResultsFromGoogle: stops once maxResults were collected
CollectResults(blocks, i, acc, maxResults) ==
    IF i > Len(blocks) THEN acc
    ELSE LET acc2 == IF KeepResult(blocks[i]) THEN Append(acc, blocks[i]) ELSE acc
         IN  IF Len(acc2) < maxResults
             THEN CollectResults(blocks, i + 1, acc2, maxResults)
             ELSE acc2

getTopResults(blocks, maxResults) ==
    SubSeq(CollectResults(blocks, 1, << >>, maxResults), 1,
           Min(maxResults, Len(CollectResults(blocks, 1, << >>, maxResults))))

\* searchGoogle on a result page: the top link, or null
TopLink(blocks) ==
    LET searchResults == getTopResults(blocks, 1)
    IN  IF Len(searchResults) > 0 THEN searchResults[1].link ELSE Null


\* ------------------------------------------------------------ call state

NoLoc ==
    [entry |-> "", query |-> "", site |-> "", url |-> "",
     sc |-> NewScrapedContent(""), method |-> "", rawHtml |-> NoHtml, maxResults |-> 0]

NoObs ==
    [probes |-> 0, fetches |-> 0, launches |-> 0, searches |-> 0,
     wrote |-> {}, overwrote |-> {}, missed |-> {}, served |-> {},
     hitOrigin |-> {}, resolved |-> {}, afterFailed |-> FALSE, expired |-> {}]

NoOut == [kind |-> "none", value |-> NewScrapedContent(""), html |-> NoHtml]

\* the call resolved to a ScrapedContent
Returned(v) == [kind |-> "return", value |-> v, html |-> NoHtml]

\* the call resolved to a string of markup or text
ReturnedHtml(h) == [kind |-> "return", value |-> NewScrapedContent(""), html |-> h]

\* the call rejected
Thrown == [kind |-> "throw", value |-> NewScrapedContent(""), html |-> NoHtml]

Init ==
    /\ redis = [k \in Keys |-> {}]
    /\ origin = [u \in Urls |-> {}]
    /\ pc = [c \in Calls |-> "idle"]
    /\ loc = [c \in Calls |-> NoLoc]
    /\ browser = [c \in Calls |-> "none"]
    /\ out = [c \in Calls |-> NoOut]
    /\ obs = [c \in Calls |-> NoObs]

\* of the locals only the arguments are kept once the call has ended
Ended(c, o) ==
    /\ pc' = [pc EXCEPT ![c] = "done"]
    /\ out' = [out EXCEPT ![c] = o]
    /\ loc' = [loc EXCEPT ![c] = [NoLoc EXCEPT !.entry = loc[c].entry, !.query = loc[c].query,
                                               !.url = loc[c].url,
                                               !.maxResults = loc[c].maxResults]]

\* history: an earlier call for this URL has ended with an error in its result
RetryOfFailed(c, url) ==
    \E d \in Calls \ {c} :
        /\ pc[d] = "done"
        /\ out[d].kind = "return"
        /\ HasError(out[d].value)
        /\ loc[d].url = url

\* scrapeURL returns v to whoever called it: scrapeAndSearch rewraps an error of the
\* scrape of the search result, every other caller gets v itself
ScrapeURLReturns(c, v) ==
    IF loc[c].site = "search" /\ HasError(v)
    THEN Ended(c, Returned(RewrappedContent(v)))
    ELSE Ended(c, Returned(v))

\* scrapeURL throws: scrapeAndSearch swallows it at the direct call site (catch {})
\* and goes on to the search; anywhere else it leaves the call
ScrapeURLThrows(c) ==
    IF loc[c].site = "direct"
    THEN /\ pc' = [pc EXCEPT ![c] = "searchGoogle"]
         /\ loc' = [loc EXCEPT ![c] = [NoLoc EXCEPT !.entry = loc[c].entry, !.query = loc[c].query]]
         /\ out' = out
    ELSE Ended(c, Thrown)

\* an exception inside the try block of scrapeURL
CaughtInScrapeURL(c) == ScrapeURLReturns(c, CaughtContent(loc[c].sc))

FetcherEntries == {"scrapeWithCheerio", "scrapeWithPuppeteer"}

\* scrapeWithCheerio or scrapeWithPuppeteer returns rawHtml to getRawHtml
\* (or to the caller that invoked the fetcher on its own)
FetcherReturns(c, rawHtml) ==
    IF loc[c].entry \in FetcherEntries
    THEN Ended(c, ReturnedHtml(rawHtml))
    ELSE /\ loc' = [loc EXCEPT ![c].rawHtml = rawHtml]
         /\ pc' = [pc EXCEPT ![c] = "grh_set"]
         /\ out' = out

\* scrapeWithPuppeteer throws: getRawHtml lets it through to the try block of scrapeURL
FetcherThrows(c) ==
    IF loc[c].entry \in FetcherEntries
    THEN Ended(c, Thrown)
    ELSE CaughtInScrapeURL(c)

\* ------------------------------------------------------------ entry points

\* a caller invokes scrapeURL(url)
CallScrapeURL(c) ==
    /\ pc[c] = "idle"
    /\ \E url \in Urls :
         /\ loc' = [loc EXCEPT ![c] = [NoLoc EXCEPT !.entry = "scrapeURL", !.site = "top", !.url = url]]
         /\ obs' = [obs EXCEPT ![c].afterFailed = RetryOfFailed(c, url)]
    /\ pc' = [pc EXCEPT ![c] = "su_get"]
    /\ UNCHANGED <<redis, origin, browser, out>>

\* a caller invokes scrapeAndSearch(query): new URL(query) succeeds or throws
CallScrapeAndSearch(c) ==
    /\ pc[c] = "idle"
    /\ \E query \in Queries :
         IF IsUrl(query)
         THEN /\ loc' = [loc EXCEPT ![c] = [NoLoc EXCEPT !.entry = "scrapeAndSearch", !.query = query,
                                                         !.site = "direct", !.url = UrlToString(query)]]
              /\ obs' = [obs EXCEPT ![c].afterFailed = RetryOfFailed(c, UrlToString(query))]
              /\ pc' = [pc EXCEPT ![c] = "su_get"]
         ELSE /\ loc' = [loc EXCEPT ![c] = [NoLoc EXCEPT !.entry = "scrapeAndSearch", !.query = query]]
              /\ obs' = obs
              /\ pc' = [pc EXCEPT ![c] = "searchGoogle"]
    /\ UNCHANGED <<redis, origin, browser, out>>

\* a caller invokes the lightweight fetch on its own
CallScrapeWithCheerio(c) ==
    /\ pc[c] = "idle"
    /\ \E url \in Urls :
         loc' = [loc EXCEPT ![c] = [NoLoc EXCEPT !.entry = "scrapeWithCheerio", !.url = url]]
    /\ pc' = [pc EXCEPT ![c] = "cheerio"]
    /\ UNCHANGED <<redis, origin, browser, out, obs>>

\* a caller invokes the browser render on its own
CallScrapeWithPuppeteer(c) ==
    /\ pc[c] = "idle"
    /\ \E url \in Urls :
         loc' = [loc EXCEPT ![c] = [NoLoc EXCEPT !.entry = "scrapeWithPuppeteer", !.url = url]]
    /\ pc' = [pc EXCEPT ![c] = "launch"]
    /\ UNCHANGED <<redis, origin, browser, out, obs>>

\* ---------------------------------------------------------------- scrapeURL

\* what scrapeURL does with the markup getRawHtml resolved to, up to its next await
AfterGetRawHtml(c, rawHtml) ==
    IF ~Truthy([n |-> rawHtml.len])
    THEN ScrapeURLReturns(c, FetchFailedContent(loc[c].sc))
    ELSE /\ loc' = [loc EXCEPT ![c].rawHtml = rawHtml, ![c].sc = Extracted(loc[c].sc, rawHtml),
                             ![c].method = ""]
         /\ pc' = [pc EXCEPT ![c] = "su_set"]
         /\ out' = out

\* history of a lookup: the key was absent from the store, and whether it was absent
\* although a call had written it (its entry expired or was deleted)
Lookup(c, key) ==
    IF redis[key] = {}
    THEN [obs EXCEPT ![c].missed = @ \cup {key},
                     ![c].expired = IF \E d \in Calls : key \in obs[d].wrote
                                    THEN @ \cup {key} ELSE @]
    ELSE obs

\* history of a write: the key held another value
Write(o, c, key, v) ==
    [o EXCEPT ![c].wrote = @ \cup {key},
              ![c].overwrote = IF redis[key] # {} /\ redis[key] # Entry(v) THEN @ \cup {key} ELSE @]

\* const cached = await redis.get(cacheKey), outside the try block
ScrapeURLCacheGet(c) ==
    /\ pc[c] = "su_get"
    /\ \/ /\ ScrapeURLThrows(c)
          /\ obs' = obs
       \/ LET cached == RedisGet(ContentKey(loc[c].url))
          IN  IF IsString(cached)
              THEN /\ ScrapeURLReturns(c, JSONparse(Stored(cached)))
                   /\ obs' = [Lookup(c, ContentKey(loc[c].url))
                                 EXCEPT ![c].served = @ \cup {"scrapedContent"},
                                        ![c].hitOrigin = origin[loc[c].url]]
              ELSE /\ loc' = [loc EXCEPT ![c].sc = NewScrapedContent(loc[c].url)]
                   /\ pc' = [pc EXCEPT ![c] = "grh_get"]
                   /\ out' = out
                   /\ obs' = Lookup(c, ContentKey(loc[c].url))
    /\ UNCHANGED <<redis, origin, browser>>

\* const cachedRawHtml = await redis.get(cacheKey) in getRawHtml
GetRawHtmlCacheGet(c) ==
    /\ pc[c] = "grh_get"
    /\ \/ /\ CaughtInScrapeURL(c)
          /\ obs' = obs
       \/ LET cachedRawHtml == RedisGet(RawKey(loc[c].url))
          IN  IF IsString(cachedRawHtml)
              THEN /\ AfterGetRawHtml(c, Stored(cachedRawHtml))
                   /\ obs' = [Lookup(c, RawKey(loc[c].url)) EXCEPT ![c].served = @ \cup {"scrapeRawHtml"}]
              ELSE /\ pc' = [pc EXCEPT ![c] = "probe"]
                   /\ UNCHANGED <<loc, out>>
                   /\ obs' = Lookup(c, RawKey(loc[c].url))
    /\ UNCHANGED <<redis, origin, browser>>

\* the probe GET of determineScrapingMethod rejected
ProbeFailed == [ok |-> FALSE, has |-> {}]

\* the probe GET answered with markup
ProbeAnswered(html) == [ok |-> TRUE, has |-> html.has]

\* the verdict of determineScrapingMethod for an outcome of its probe
MethodOf(probe) == IF probe.ok THEN MethodFor(probe) ELSE MethodOnProbeFailure

\* determineScrapingMethod resolved to a verdict; the outcome of its probe is kept as history
ReturnedMethod(method, probe) ==
    [kind |-> "return", value |-> NewScrapedContent(""), html |-> NoHtml,
     method |-> method, probe |-> probe]

\* a caller invokes determineScrapingMethod(url) on its own
CallDetermineScrapingMethod(c) ==
    /\ pc[c] = "idle"
    /\ \E url \in Urls :
         loc' = [loc EXCEPT ![c] = [NoLoc EXCEPT !.entry = "determineScrapingMethod", !.url = url]]
    /\ pc' = [pc EXCEPT ![c] = "probe"]
    /\ UNCHANGED <<redis, origin, browser, out, obs>>

\* mutant: the fetcher is picked without a classification request
DetermineScrapingMethod_Unprobed(c) ==
    /\ pc[c] = "probe"
    /\ \E method \in {"puppeteer", "cheerio"} :
         /\ pc' = [pc EXCEPT ![c] = IF method = "puppeteer" THEN "launch" ELSE "cheerio"]
         /\ loc' = [loc EXCEPT ![c].method = method]
    /\ UNCHANGED <<redis, origin, browser, out, obs>>

\* determineScrapingMethod: the probe GET answers with some page or fails; the verdict
\* goes to the caller, or to getRawHtml, which picks the fetcher by it
DetermineScrapingMethod(c) ==
    /\ pc[c] = "probe"
    /\ \E probe \in {ProbeFailed} \cup {ProbeAnswered(html) : html \in Pages} :
         LET method == MethodOf(probe)
         IN  IF loc[c].entry = "determineScrapingMethod"
             THEN Ended(c, ReturnedMethod(method, probe))
             ELSE /\ loc' = [loc EXCEPT ![c].method = method]
                  /\ pc' = [pc EXCEPT ![c] = IF method = "puppeteer" THEN "launch" ELSE "cheerio"]
                  /\ out' = out
    /\ obs' = [obs EXCEPT ![c].probes = @ + 1]
    /\ UNCHANGED <<redis, origin, browser>>

\* scrapeWithCheerio: response.data, or "" from the catch block
ScrapeWithCheerio(c) ==
    /\ pc[c] = "cheerio"
    /\ \E rawHtml \in Pages \cup {NoHtml} : FetcherReturns(c, rawHtml)
    /\ obs' = [obs EXCEPT ![c].fetches = @ + 1]
    /\ UNCHANGED <<redis, origin, browser>>

\* const browser = await puppeteer.launch(...), outside the try block
PuppeteerLaunch(c) ==
    /\ pc[c] = "launch"
    /\ obs' = [obs EXCEPT ![c].launches = @ + 1]
    /\ \/ /\ browser' = [browser EXCEPT ![c] = "open"]
          /\ pc' = [pc EXCEPT ![c] = "navigate"]
          /\ UNCHANGED <<loc, out>>
       \/ /\ FetcherThrows(c)
          /\ browser' = browser
    /\ UNCHANGED <<redis, origin>>

\* newPage, setUserAgent, goto, content: the markup, or "" from the catch block
PuppeteerNavigate(c) ==
    /\ pc[c] = "navigate"
    /\ \E rawHtml \in Pages \cup {NoHtml} :
         loc' = [loc EXCEPT ![c].rawHtml = rawHtml]
    /\ pc' = [pc EXCEPT ![c] = "close"]
    /\ obs' = [obs EXCEPT ![c].fetches = @ + 1]
    /\ UNCHANGED <<redis, origin, browser, out>>

\* finally { await browser.close() }: a rejection replaces the pending return
PuppeteerClose(c) ==
    /\ pc[c] = "close"
    /\ \/ /\ browser' = [browser EXCEPT ![c] = "closed"]
          /\ FetcherReturns(c, loc[c].rawHtml)
       \/ /\ browser' = [browser EXCEPT ![c] = "close failed"]
          /\ FetcherThrows(c)
    /\ UNCHANGED <<redis, origin, obs>>

\* if (rawHtml) { await redis.set(cacheKey, truncated, ...) }; return rawHtml
GetRawHtmlCacheSet(c) ==
    /\ pc[c] = "grh_set"
    /\ IF ShouldCacheRaw(loc[c].rawHtml)
       THEN \/ /\ redis' = RedisSet(RawKey(loc[c].url), Truncated(loc[c].rawHtml))
               /\ obs' = Write(obs, c, RawKey(loc[c].url), Truncated(loc[c].rawHtml))
               /\ AfterGetRawHtml(c, loc[c].rawHtml)
            \/ /\ CaughtInScrapeURL(c)
               /\ UNCHANGED <<redis, obs>>
       ELSE /\ AfterGetRawHtml(c, loc[c].rawHtml)
            /\ UNCHANGED <<redis, obs>>
    /\ UNCHANGED <<origin, browser>>

\* await redis.set(cacheKey, JSON.stringify(scrapedContent), ...); return scrapedContent
ScrapeURLCacheSet(c) ==
    /\ pc[c] = "su_set"
    /\ \/ /\ redis' = RedisSet(ContentKey(loc[c].url), JSONstringify(loc[c].sc))
          /\ origin' = [origin EXCEPT ![loc[c].url] = {loc[c].sc}]
          /\ obs' = Write(obs, c, ContentKey(loc[c].url), JSONstringify(loc[c].sc))
          /\ ScrapeURLReturns(c, loc[c].sc)
       \/ /\ CaughtInScrapeURL(c)
          /\ UNCHANGED <<redis, origin, obs>>
    /\ browser' = browser

\* ---------------------------------------------------------- scrapeAndSearch

\* const topUrl = await searchGoogle(query): the search GET answers or fails;
\* then the no-result return, or the call of scrapeURL(topUrl)
SearchGoogle(c) ==
    /\ pc[c] = "searchGoogle"
    /\ \E topUrl \in {Null} \cup {TopLink(blocks) : blocks \in SearchPages} :
         /\ IF topUrl = Null \/ topUrl = ""
            THEN Ended(c, Returned(NoResultsContent))
            ELSE /\ loc' = [loc EXCEPT ![c].site = "search", ![c].url = topUrl]
                 /\ pc' = [pc EXCEPT ![c] = "su_get"]
                 /\ out' = out
         /\ obs' = [obs EXCEPT ![c].searches = @ + 1,
                               ![c].resolved = @ \cup {topUrl},
                               ![c].afterFailed = topUrl # Null /\ RetryOfFailed(c, topUrl)]
    /\ UNCHANGED <<redis, origin, browser>>

\* ------------------------------------------- the search resolver on its own

\* result pages with a relative link back to the search engine in a result block, and
\* with more usable results than any caller asks for
ResultPages ==
    SearchPages \cup
    { << Result("Images for cats", "/search?q=cats&tbm=isch"), Result("A", UrlA) >>,
      << Result("A", UrlA), Result("", UrlB), Result("B", UrlB),
         Result("C", "https://c.test/"), Result("D", "https://d.test/") >> }

\* the GET of the result page rejected
SearchFailed == [ok |-> FALSE, blocks |-> << >>]

\* the GET of the result page answered
SearchAnswered(blocks) == [ok |-> TRUE, blocks |-> blocks]

\* what getTopResultsFromGoogle resolves to for an outcome of its GET
ResultsOf(answer, maxResults) ==
    IF answer.ok THEN getTopResults(answer.blocks, maxResults) ELSE << >>

\* what searchGoogle makes of the list getTopResultsFromGoogle(query, 1) resolved to
LinkOf(searchResults) ==
    IF Len(searchResults) > 0 THEN searchResults[1].link ELSE Null

\* the call resolved to a result list or to a link; the outcome of its GET is kept as history
ReturnedResults(results, link, answer) ==
    [kind |-> "return", value |-> NewScrapedContent(""), html |-> NoHtml,
     results |-> results, link |-> link, answer |-> answer]

MaxResultsArgs == 1..3

\* a caller invokes getTopResultsFromGoogle(query, maxResults)
CallGetTopResultsFromGoogle(c) ==
    /\ pc[c] = "idle"
    /\ \E maxResults \in MaxResultsArgs :
         loc' = [loc EXCEPT ![c] = [NoLoc EXCEPT !.entry = "getTopResultsFromGoogle",
                                                 !.query = "cats", !.maxResults = maxResults]]
    /\ pc' = [pc EXCEPT ![c] = "results"]
    /\ UNCHANGED <<redis, origin, browser, out, obs>>

\* a caller invokes searchGoogle(query), which asks for one result
CallSearchGoogle(c) ==
    /\ pc[c] = "idle"
    /\ loc' = [loc EXCEPT ![c] = [NoLoc EXCEPT !.entry = "searchGoogle", !.query = "cats",
                                               !.maxResults = 1]]
    /\ pc' = [pc EXCEPT ![c] = "results"]
    /\ UNCHANGED <<redis, origin, browser, out, obs>>

\* the GET of getTopResultsFromGoogle answers with a result page or fails
GetTopResultsFromGoogle(c) ==
    /\ pc[c] = "results"
    /\ \E answer \in {SearchFailed} \cup {SearchAnswered(blocks) : blocks \in ResultPages} :
         LET searchResults == ResultsOf(answer, loc[c].maxResults)
         IN  IF loc[c].entry = "searchGoogle"
             THEN Ended(c, ReturnedResults(<< >>, LinkOf(searchResults), answer))
             ELSE Ended(c, ReturnedResults(searchResults, Null, answer))
    /\ obs' = [obs EXCEPT ![c].searches = @ + 1]
    /\ UNCHANGED <<redis, origin, browser>>

\* ------------------------------------- the content extractor on its own

\* markup in which a later selector holds the longest text, after a shorter earlier one
\* and before one that ties with it
PageLaterLongest ==
    [NoHtml EXCEPT !.id = "later", !.len = 2000,
                   !.cand = [NoCandidates EXCEPT ![1] = T("article", 120, 20),
                                                 ![4] = T("#content", 640, 40),
                                                 ![6] = T(".article", 600, 0)],
                   !.body = T("body", 1500, 100)]

\* the markup extractMainContent is applied to
ExtractorPages == Pages \cup {NoHtml, PageLaterLongest}

\* extractMainContent returned mainText; the markup it was given is kept as history
ReturnedText(mainText, rawHtml) ==
    [kind |-> "return", value |-> NewScrapedContent(""), html |-> NoHtml,
     text |-> mainText, of |-> rawHtml]

\* a caller invokes extractMainContent(rawHtml)
CallExtractMainContent(c) ==
    /\ pc[c] = "idle"
    /\ \E rawHtml \in ExtractorPages :
         loc' = [loc EXCEPT ![c] = [NoLoc EXCEPT !.entry = "extractMainContent", !.rawHtml = rawHtml]]
    /\ pc' = [pc EXCEPT ![c] = "extract"]
    /\ UNCHANGED <<redis, origin, browser, out, obs>>

\* the function runs to its return
ReturnMainContent(c) ==
    /\ pc[c] = "extract"
    /\ Ended(c, ReturnedText(extractMainContent(loc[c].rawHtml), loc[c].rawHtml))
    /\ UNCHANGED <<redis, origin, browser, obs>>

ExtractorNext ==
    \/ \E c \in Calls : CallExtractMainContent(c)
    \/ \E c \in Calls : ReturnMainContent(c)

ExtractorSpec == Init /\ [][ExtractorNext]_vars

\* ------------------------------------- scrapeURL of the chat route (route.ts)

\* $('body').text() of the captured markup, as the string the call resolves to
BodyText(html) == [NoHtml EXCEPT !.id = "text", !.len = html.body.n, !.body = html.body]

\* the chat route invokes its own scrapeURL(url)
CallRouteScrapeURL(c) ==
    /\ pc[c] = "idle"
    /\ \E url \in Urls :
         loc' = [loc EXCEPT ![c] = [NoLoc EXCEPT !.entry = "route.scrapeURL", !.url = url]]
    /\ pc' = [pc EXCEPT ![c] = "r_launch"]
    /\ UNCHANGED <<redis, origin, browser, out, obs>>

\* const browser = await puppeteer.launch({headless: true})
RouteLaunch(c) ==
    /\ pc[c] = "r_launch"
    /\ obs' = [obs EXCEPT ![c].launches = @ + 1]
    /\ \/ /\ browser' = [browser EXCEPT ![c] = "open"]
          /\ pc' = [pc EXCEPT ![c] = "r_navigate"]
          /\ UNCHANGED <<loc, out>>
       \/ /\ Ended(c, Thrown)
          /\ browser' = browser
    /\ UNCHANGED <<redis, origin>>

\* newPage, goto, content, with no try around them: a rejection leaves the function
RouteNavigate(c) ==
    /\ pc[c] = "r_navigate"
    /\ obs' = [obs EXCEPT ![c].fetches = @ + 1]
    /\ \/ /\ \E html \in Pages : loc' = [loc EXCEPT ![c].rawHtml = html]
          /\ pc' = [pc EXCEPT ![c] = "r_close"]
          /\ out' = out
       \/ Ended(c, Thrown)
    /\ UNCHANGED <<redis, origin, browser>>

\* await browser.close(); then the body text is returned
RouteClose(c) ==
    /\ pc[c] = "r_close"
    /\ \/ /\ browser' = [browser EXCEPT ![c] = "closed"]
          /\ Ended(c, ReturnedHtml(BodyText(loc[c].rawHtml)))
       \/ /\ browser' = [browser EXCEPT ![c] = "close failed"]
          /\ Ended(c, Thrown)
    /\ UNCHANGED <<redis, origin, obs>>

\* ------------------------- scrapeURL of the earlier scraper revision (part_002)

\* [a, b, ...].join(' ') of normalized texts
JoinedLength(texts) ==
    LET RECURSIVE Sum(_)
        Sum(i) == IF i = 0 THEN 0 ELSE texts[i].n + Sum(i - 1)
    IN  Sum(Len(texts)) + (Len(texts) - 1)

\* the object the try block of the earlier scrapeURL returns
LegacyContent(url, html) ==
    LET title == cleanText(html.title)
        metaDescription == cleanText(html.meta)
        h1 == cleanText(html.h1)
        h2 == cleanText(html.h2)
        parts == <<title, metaDescription, h1, h2,
                   cleanText(html.cand[1]), cleanText(html.cand[2]),
                   cleanText(T("content", html.cand[3].n + html.cand[4].n, html.cand[3].ws + html.cand[4].ws)),
                   cleanText(html.p), cleanText(html.li)>>
    IN  [url |-> url, title |-> title, headings |-> [h1 |-> h1, h2 |-> h2],
         metaDescription |-> metaDescription,
         content |-> Slice(T("combined", JoinedLength(parts), 0), MAX_CONTENT_LENGTH),
         error |-> Null]

\* the object the catch block of the earlier scrapeURL returns
LegacyFailedContent(url) == [NewScrapedContent(url) EXCEPT !.error = "Failed to scrape URL"]

\* a caller invokes the earlier scrapeURL(url)
CallLegacyScrapeURL(c) ==
    /\ pc[c] = "idle"
    /\ \E url \in Urls :
         loc' = [loc EXCEPT ![c] = [NoLoc EXCEPT !.entry = "legacy.scrapeURL", !.url = url]]
    /\ pc' = [pc EXCEPT ![c] = "l_launch"]
    /\ UNCHANGED <<redis, origin, browser, out, obs>>

\* const browser = await puppeteer.launch(...), outside the try block
LegacyLaunch(c) ==
    /\ pc[c] = "l_launch"
    /\ obs' = [obs EXCEPT ![c].launches = @ + 1]
    /\ \/ /\ browser' = [browser EXCEPT ![c] = "open"]
          /\ pc' = [pc EXCEPT ![c] = "l_navigate"]
          /\ UNCHANGED <<loc, out>>
       \/ /\ Ended(c, Thrown)
          /\ browser' = browser
    /\ UNCHANGED <<redis, origin>>

\* try { newPage, goto, content, extraction } catch { the error object }
LegacyNavigate(c) ==
    /\ pc[c] = "l_navigate"
    /\ obs' = [obs EXCEPT ![c].fetches = @ + 1]
    /\ \E sc \in {LegacyFailedContent(loc[c].url)} \cup {LegacyContent(loc[c].url, html) : html \in Pages} :
         loc' = [loc EXCEPT ![c].sc = sc]
    /\ pc' = [pc EXCEPT ![c] = "l_close"]
    /\ UNCHANGED <<redis, origin, browser, out>>

\* finally { await browser.close() }: a rejection replaces the pending return
LegacyClose(c) ==
    /\ pc[c] = "l_close"
    /\ \/ /\ browser' = [browser EXCEPT ![c] = "closed"]
          /\ Ended(c, Returned(loc[c].sc))
       \/ /\ browser' = [browser EXCEPT ![c] = "close failed"]
          /\ Ended(c, Thrown)
    /\ UNCHANGED <<redis, origin, obs>>

\* ------------------------------------------- the chat handler (POST /api/chat)

\* the two revisions of the handler: route.ts and the later one of part_003
Revisions == {"route.ts", "part_003"}

\* a query is its whitespace-separated words; the empty query is the empty string
ChatQueries ==
    { << >>, <<"what", "is", "rust">>, <<"what", "is", "go">>,
      <<"summarize", UrlA, "or", UrlB>>, <<"explain", UrlA>> }

\* what `await req.json()` yields: a rejection, null, or an object with or without a query
MalformedBody == [json |-> "malformed", has |-> FALSE, query |-> << >>]

NullBody == [json |-> "null", has |-> FALSE, query |-> << >>]

ObjectWithoutQuery == [json |-> "object", has |-> FALSE, query |-> << >>]

ObjectWith(query) == [json |-> "object", has |-> TRUE, query |-> query]

Bodies ==
    {MalformedBody, NullBody, ObjectWithoutQuery} \cup
    {ObjectWith(query) : query \in ChatQueries}

\* mutant: only an absent field is rejected, the empty string goes on
QueryIsFalsy_OnlyAbsent(body) == ~body.has

\* !query: the field is absent or the empty string
QueryIsFalsy(body) == ~body.has \/ body.query = << >>

RECURSIVE FirstMatch(_, _)
\* query.match(/(https?:\/\/[^\s]+)/g): the first word that is a URL, if there is one
FirstMatch(query, i) ==
    IF i > Len(query) THEN Null
    ELSE IF query[i] \in Urls THEN query[i] ELSE FirstMatch(query, i + 1)

\* matches ? matches[0] : null
extractFromQuery(query) == FirstMatch(query, 1)

\* crypto.createHash('sha256').update(query).digest('hex'): distinct texts, distinct digests
hashQuery(query) == <<"sha256">> \o query

\* mutant: the key is built from the whole query text
ChatCacheKey_PerQuestion(rev, url, query) == <<"chat:query">> \o hashQuery(query)

\* the cache key each revision builds: `chat:${url}`, with the text "null" for a null
\* url, or `chat:query:${url}` and `chat:query:${hashQuery(query)}`
ChatCacheKey(rev, url, query) ==
    IF rev = "route.ts" THEN <<"chat", url>>
    ELSE IF url # Null THEN <<"chat:query", url>>
    ELSE <<"chat:query">> \o hashQuery(query)

ChatKeys ==
    {ChatCacheKey(rev, extractFromQuery(body.query), body.query) :
        rev \in Revisions, body \in {b \in Bodies : ~QueryIsFalsy(b)}}

NoSources == "No external sources used answer based in pre-trained knoledge"

\* the sources member of the result: url (null when there is none) in route.ts,
\* url or the fixed text in part_003
SourcesOf(rev, url) ==
    IF rev = "route.ts" THEN url
    ELSE IF url # Null THEN url ELSE NoSources

\* completion.choices?.[0]?.message?.content || 'No response'
AnswerOf(content) == IF content = "" THEN "No response" ELSE content

\* the contents the model may answer with
Completions == {"", "an answer"}

\* JSON.stringify(result)
StringifyResult(result) == <<result.answer, result.sources>>

\* what redis.get hands back for a stored result: the value read back from its JSON text
ParseResult(s) == [answer |-> s[1], sources |-> s[2]]

\* set(cacheKey, JSON.stringify(result), {ex: 3600}); history: the query of the writer
ChatEntry(result, query) == {[val |-> StringifyResult(result), ex |-> 3600, by |-> query]}

\* what the scrape of a revision can resolve to as the prompt context: the body text of
\* the page in route.ts, the text of an object in part_003
ScrapedContexts(rev) ==
    IF rev = "route.ts" THEN {html.body : html \in {PageStatic, PageDynamic}}
    ELSE {T("[object Object]", 15, 0)}

\* mutant: the page is scraped whether or not the query holds a URL
NeedsScrape_Always(url) == TRUE

\* if (url) { scrapedContents = await scrapeURL(url) }
NeedsScrape(url) == url # Null

NoChatLoc ==
    [entry |-> "", rev |-> "", req |-> MalformedBody, query |-> << >>, url |-> Null,
     cacheKey |-> << >>, context |-> EmptyText, answer |-> ""]

NoChatObs ==
    [reads |-> 0, writes |-> {}, scrapes |-> 0, llm |-> 0, contexts |-> {},
     failed |-> {}, servedBy |-> {}]

ChatInit ==
    /\ redis = [k \in ChatKeys |-> {}]
    /\ origin = [u \in Urls |-> {}]
    /\ pc = [c \in Calls |-> "idle"]
    /\ loc = [c \in Calls |-> NoChatLoc]
    /\ browser = [c \in Calls |-> "none"]
    /\ out = [c \in Calls |-> [kind |-> "none"]]
    /\ obs = [c \in Calls |-> NoChatObs]

\* return new Response(JSON.stringify(body), {status}); of the locals the request is kept
Respond(c, status, body) ==
    /\ pc' = [pc EXCEPT ![c] = "done"]
    /\ out' = [out EXCEPT ![c] = [kind |-> "response", status |-> status, body |-> body]]
    /\ loc' = [loc EXCEPT ![c] = [NoChatLoc EXCEPT !.entry = "POST", !.rev = loc[c].rev,
                                                   !.req = loc[c].req]]

\* mutant: the exception leaves the handler
Caught_Uncaught(c, message) ==
    /\ pc' = [pc EXCEPT ![c] = "done"]
    /\ out' = [out EXCEPT ![c] = [kind |-> "throw"]]
    /\ loc' = [loc EXCEPT ![c] = [NoChatLoc EXCEPT !.entry = "POST", !.rev = loc[c].rev,
                                                   !.req = loc[c].req]]

\* catch (error) { return new Response(JSON.stringify({error: error.message}), {status: 500}) }
Caught(c, message) == Respond(c, 500, [error |-> message])

\* a client posts a request to one of the revisions
CallPost(c) ==
    /\ pc[c] = "idle"
    /\ \E rev \in Revisions, body \in Bodies :
         loc' = [loc EXCEPT ![c] = [NoChatLoc EXCEPT !.entry = "POST", !.rev = rev, !.req = body]]
    /\ pc' = [pc EXCEPT ![c] = "json"]
    /\ UNCHANGED <<redis, origin, browser, out, obs>>

\* const {query} = await req.json(); the 400 answer; url and cacheKey
PostParse(c) ==
    /\ pc[c] = "json"
    /\ LET body == loc[c].req
       IN  IF body.json = "malformed"
           THEN /\ Caught(c, "Unexpected end of JSON input")
                /\ obs' = [obs EXCEPT ![c].failed = @ \cup {"req.json"}]
           ELSE IF body.json = "null"
           THEN /\ Caught(c, "Cannot destructure property 'query'")
                /\ obs' = [obs EXCEPT ![c].failed = @ \cup {"destructure"}]
           ELSE IF QueryIsFalsy(body)
           THEN /\ Respond(c, 400, [error |-> "Invalid input."])
                /\ obs' = obs
           ELSE LET url == extractFromQuery(body.query)
                IN  /\ loc' = [loc EXCEPT ![c].query = body.query, ![c].url = url,
                                          ![c].cacheKey = ChatCacheKey(loc[c].rev, url, body.query)]
                    /\ pc' = [pc EXCEPT ![c] = "chat_get"]
                    /\ UNCHANGED <<out, obs>>
    /\ UNCHANGED <<redis, origin, browser>>

\* mutant: a hit stores the entry again, which restarts its hour
PostCacheGet_Refreshing(c) ==
    /\ pc[c] = "chat_get"
    /\ LET cachedResult == redis[loc[c].cacheKey]
       IN  IF cachedResult # {}
           THEN /\ \E e \in cachedResult :
                     /\ Respond(c, 200, ParseResult(e.val))
                     /\ obs' = [obs EXCEPT ![c].reads = @ + 1, ![c].servedBy = {e.by},
                                           ![c].writes = @ \cup {loc[c].cacheKey}]
                /\ redis' = [redis EXCEPT ![loc[c].cacheKey] = cachedResult]
           ELSE /\ pc' = [pc EXCEPT ![c] = IF NeedsScrape(loc[c].url) THEN "chat_scrape"
                                                                      ELSE "chat_llm"]
                /\ obs' = [obs EXCEPT ![c].reads = @ + 1]
                /\ UNCHANGED <<loc, out, redis>>
    /\ UNCHANGED <<origin, browser>>

\* const cachedResult = await redis.get(cacheKey); if (cachedResult) return it with 200
PostCacheGet(c) ==
    /\ pc[c] = "chat_get"
    /\ \/ /\ Caught(c, "redis.get failed")
          /\ obs' = [obs EXCEPT ![c].failed = @ \cup {"redis.get"}]
       \/ LET cachedResult == redis[loc[c].cacheKey]
          IN  IF cachedResult # {}
              THEN /\ \E e \in cachedResult :
                        /\ Respond(c, 200, ParseResult(e.val))
                        /\ obs' = [obs EXCEPT ![c].reads = @ + 1, ![c].servedBy = {e.by}]
              ELSE /\ pc' = [pc EXCEPT ![c] = IF NeedsScrape(loc[c].url) THEN "chat_scrape"
                                                                         ELSE "chat_llm"]
                   /\ obs' = [obs EXCEPT ![c].reads = @ + 1]
                   /\ UNCHANGED <<loc, out>>
    /\ UNCHANGED <<redis, origin, browser>>

\* scrapedContents = await scrapeURL(url)
PostScrape(c) ==
    /\ pc[c] = "chat_scrape"
    /\ \/ /\ Caught(c, "scrapeURL failed")
          /\ obs' = [obs EXCEPT ![c].scrapes = @ + 1, ![c].failed = @ \cup {"scrapeURL"}]
       \/ /\ \E scrapedContents \in ScrapedContexts(loc[c].rev) :
               loc' = [loc EXCEPT ![c].context = scrapedContents]
          /\ pc' = [pc EXCEPT ![c] = "chat_llm"]
          /\ obs' = [obs EXCEPT ![c].scrapes = @ + 1]
          /\ out' = out
    /\ UNCHANGED <<redis, origin, browser>>

\* const completion = await Client.chat.completions.create({model, messages})
PostCompletion(c) ==
    /\ pc[c] = "chat_llm"
    /\ \/ /\ Caught(c, "completion failed")
          /\ obs' = [obs EXCEPT ![c].llm = @ + 1, ![c].contexts = @ \cup {loc[c].context},
                                ![c].failed = @ \cup {"completion"}]
       \/ /\ \E content \in Completions :
               loc' = [loc EXCEPT ![c].answer = AnswerOf(content)]
          /\ pc' = [pc EXCEPT ![c] = "chat_set"]
          /\ obs' = [obs EXCEPT ![c].llm = @ + 1, ![c].contexts = @ \cup {loc[c].context}]
          /\ out' = out
    /\ UNCHANGED <<redis, origin, browser>>

\* await redis.set(cacheKey, JSON.stringify(result), {ex: 3600}); return result with 200
PostCacheSet(c) ==
    /\ pc[c] = "chat_set"
    /\ LET result == [answer |-> loc[c].answer, sources |-> SourcesOf(loc[c].rev, loc[c].url)]
       IN  \/ /\ Caught(c, "redis.set failed")
              /\ obs' = [obs EXCEPT ![c].failed = @ \cup {"redis.set"}]
              /\ redis' = redis
           \/ /\ redis' = [redis EXCEPT ![loc[c].cacheKey] = ChatEntry(result, loc[c].query)]
              /\ obs' = [obs EXCEPT ![c].writes = @ \cup {loc[c].cacheKey}]
              /\ Respond(c, 200, ParseResult(StringifyResult(result)))
    /\ UNCHANGED <<origin, browser>>

\* the hour of a chat answer's entry elapses
ChatExpire(key) ==
    /\ redis[key] # {}
    /\ redis' = [redis EXCEPT ![key] = {}]
    /\ UNCHANGED <<origin, pc, loc, browser, out, obs>>

ChatNext ==
    \/ \E c \in Calls : CallPost(c)
    \/ \E c \in Calls : PostParse(c)
    \/ \E c \in Calls : PostCacheGet(c)
    \/ \E c \in Calls : PostScrape(c)
    \/ \E c \in Calls : PostCompletion(c)
    \/ \E c \in Calls : PostCacheSet(c)
    \/ \E key \in ChatKeys : ChatExpire(key)

ChatSpec == ChatInit /\ [][ChatNext]_vars

\* --------------------------------------- the rate-limit middleware (middleware.ts)

\* Ratelimit.slidingWindow(10, "10 s"): requests per window, and the window in ms
RateLimit == 10

WindowMs == 10000

\* the x-forwarded-for header as its comma-separated addresses; << >> when it is absent
ForwardedFor == { << >>, <<"1.1.1.1">>, <<"1.1.1.1", "10.0.0.1">> }

\* fowardedFor ? fowardedFor.split(",")[0] : 'Unknowns'
clientIdentifer(fowardedFor) ==
    IF fowardedFor = << >> THEN "Unknowns" ELSE fowardedFor[1]

MwClients == {clientIdentifer(fowardedFor) : fowardedFor \in ForwardedFor}

\* what ratelimit.limit resolves to for a client with `count` requests in its window
LimitResult(count) ==
    [success |-> count < RateLimit,
     remaining |-> IF count < RateLimit THEN RateLimit - (count + 1) ELSE 0,
     reset |-> WindowMs]

\* mutant: the limiter's verdict is ignored
Breached_Never(result) == FALSE

\* if (!success)
Breached(result) == ~result.success

\* the 429 response
TooManyRequests(reset) ==
    [kind |-> "response", status |-> 429,
     body |-> [error |-> "Rate limit exceeded. Please try again later", retryAfter |-> reset],
     headers |-> ("Content-Type" :> "application/json" @@ "Retry-After" :> ToString(reset))]

\* NextResponse.next() with the three headers set on it
PassedOn(remaining, reset) ==
    [kind |-> "next", status |-> 200, body |-> [error |-> ""],
     headers |-> ("X-RateLimit-Limit" :> "10" @@ "X-RateLimit-Remaining" :> ToString(remaining)
                  @@ "X-Limit-Reset" :> ToString(reset))]

\* mutant: the catch block lets the request through
InternalServerError_PassedOn ==
    [kind |-> "next", status |-> 200, body |-> [error |-> ""],
     headers |-> ("X-RateLimit-Limit" :> "10" @@ "X-RateLimit-Remaining" :> "0"
                  @@ "X-Limit-Reset" :> "0")]

\* the response of the catch block
InternalServerError ==
    [kind |-> "response", status |-> 500, body |-> [error |-> "Internal server error"],
     headers |-> ("Content-Type" :> "application/json")]

\* the limiter's counters are whatever earlier requests left in the store
MwInit ==
    /\ redis \in [MwClients -> 0..RateLimit]
    /\ origin = [u \in Urls |-> {}]
    /\ pc = [c \in Calls |-> "idle"]
    /\ loc = [c \in Calls |-> [entry |-> "", fowardedFor |-> << >>]]
    /\ browser = [c \in Calls |-> "none"]
    /\ out = [c \in Calls |-> [kind |-> "none"]]
    /\ obs = [c \in Calls |-> [limited |-> {}, failed |-> {}]]

\* a request reaches the middleware
CallMiddleware(c) ==
    /\ pc[c] = "idle"
    /\ \E fowardedFor \in ForwardedFor :
         loc' = [loc EXCEPT ![c] = [entry |-> "middleware", fowardedFor |-> fowardedFor]]
    /\ pc' = [pc EXCEPT ![c] = "headers"]
    /\ UNCHANGED <<redis, origin, browser, out, obs>>

\* (await headerList).get('x-forwarded-for'), inside the try block
ReadHeaders(c) ==
    /\ pc[c] = "headers"
    /\ \/ /\ pc' = [pc EXCEPT ![c] = "limit"]
          /\ UNCHANGED <<out, obs>>
       \/ /\ pc' = [pc EXCEPT ![c] = "done"]
          /\ out' = [out EXCEPT ![c] = InternalServerError]
          /\ obs' = [obs EXCEPT ![c].failed = @ \cup {"headers"}]
    /\ UNCHANGED <<redis, origin, loc, browser>>

\* const {success, remaining, reset} = await ratelimit.limit(clientIdentifer); the answer
RatelimitLimit(c) ==
    /\ pc[c] = "limit"
    /\ pc' = [pc EXCEPT ![c] = "done"]
    /\ \/ LET client == clientIdentifer(loc[c].fowardedFor)
              result == LimitResult(redis[client])
          IN  /\ redis' = [redis EXCEPT ![client] = IF result.success THEN @ + 1 ELSE @]
              /\ obs' = [obs EXCEPT ![c].limited = {result}]
              /\ out' = [out EXCEPT ![c] = IF Breached(result)
                                           THEN TooManyRequests(result.reset)
                                           ELSE PassedOn(result.remaining, result.reset)]
       \/ /\ out' = [out EXCEPT ![c] = InternalServerError]
          /\ obs' = [obs EXCEPT ![c].failed = @ \cup {"limit"}]
          /\ redis' = redis
    /\ UNCHANGED <<origin, loc, browser>>

\* the window of a client has passed
WindowSlides(client) ==
    /\ redis[client] > 0
    /\ redis' = [redis EXCEPT ![client] = 0]
    /\ UNCHANGED <<origin, pc, loc, browser, out, obs>>

MiddlewareNext ==
    \/ \E c \in Calls : CallMiddleware(c)
    \/ \E c \in Calls : ReadHeaders(c)
    \/ \E c \in Calls : RatelimitLimit(c)
    \/ \E client \in MwClients : WindowSlides(client)

MiddlewareSpec == MwInit /\ [][MiddlewareNext]_vars

\* ----------------------------------------------- the chat page (part_004, part_001)

\* the two revisions of the page in part_004: the one built from components (lines
\* 1-103, with the InputArea of part_001) and the one with inline markup (105-281)
PageRevisions == {"components", "inline"}

\* what the user may have in the input field, as its whitespace-separated words; <<" ">>
\* is a text of blanks only
Typed == { << >>, <<" ">>, <<"hello">>, <<"read", UrlA>> }

\* message.trim()
Trim(message) == SelectSeq(message, LAMBDA w : w # " ")

Message(role, content) == [role |-> role, content |-> content]

\* the state of the component after its first render; here `browser` holds the React
\* state of the page, `loc` the closure of each handleSend invocation
PageInit ==
    /\ redis = [k \in {} |-> {}]
    /\ origin = [u \in Urls |-> {}]
    /\ pc = [c \in Calls |-> "idle"]
    /\ loc = [c \in Calls |-> [entry |-> "", message |-> << >>, ok |-> FALSE]]
    /\ \E rev \in PageRevisions :
         browser = [rev |-> rev, message |-> << >>, isLoading |-> FALSE,
                    messages |-> << Message("ai", <<"Hello! How can I help you today?">>) >>]
    /\ out = [c \in Calls |-> [kind |-> "none"]]
    /\ obs = [c \in Calls |-> [appended |-> << >>, requests |-> 0]]

\* onChange={e => setMessage(e.target.value)}: the field is never disabled
TypeMessage(text) ==
    /\ browser.message # text
    /\ browser' = [browser EXCEPT !.message = text]
    /\ UNCHANGED <<redis, origin, pc, loc, out, obs>>

\* handleSend up to its first await: the blank test, in the inline revision the notice
\* for a message without URL, the user message, setMessage(""), setIsLoading(true), fetch
HandleSend(c) ==
    /\ pc[c] = "idle"
    /\ LET message == browser.message
           notice == IF browser.rev = "inline" /\ FirstMatch(message, 1) = Null
                     THEN << Message("ai", <<"Please include a valid url">>) >>
                     ELSE << >>
           added == notice \o << Message("user", message) >>
       IN  IF Trim(message) = << >>
           THEN /\ pc' = [pc EXCEPT ![c] = "done"]
                /\ loc' = [loc EXCEPT ![c].entry = "handleSend", ![c].message = message]
                /\ out' = [out EXCEPT ![c] = [kind |-> "return"]]
                /\ UNCHANGED <<browser, obs>>
           ELSE /\ pc' = [pc EXCEPT ![c] = "fetch"]
                /\ loc' = [loc EXCEPT ![c].entry = "handleSend", ![c].message = message]
                /\ browser' = [browser EXCEPT !.messages = @ \o added, !.message = << >>,
                                              !.isLoading = TRUE]
                /\ obs' = [obs EXCEPT ![c].appended = added, ![c].requests = @ + 1]
                /\ out' = out
    /\ UNCHANGED <<redis, origin>>

\* onKeyPress={e => e.key === "Enter" && handleSend()}
PressEnter(c) == HandleSend(c)

\* <button onClick={handleSend} disabled={isLoading}>
ClickSend(c) == ~browser.isLoading /\ HandleSend(c)

\* the ai message a path of handleSend appends, then finally { setIsLoading(false) }
Finish(c, content) ==
    /\ browser' = [browser EXCEPT !.messages = Append(@, Message("ai", content)),
                                  !.isLoading = FALSE]
    /\ obs' = [obs EXCEPT ![c].appended = Append(@, Message("ai", content))]
    /\ pc' = [pc EXCEPT ![c] = "done"]
    /\ out' = [out EXCEPT ![c] = [kind |-> "return"]]
    /\ loc' = loc

\* await fetch("/api/chat", ...): it rejects, or resolves with response.ok true or false
FetchSettles(c) ==
    /\ pc[c] = "fetch"
    /\ \/ Finish(c, <<"An error ocurred, please try again">>)
       \/ /\ \E ok \in BOOLEAN : loc' = [loc EXCEPT ![c].ok = ok]
          /\ pc' = [pc EXCEPT ![c] = "json"]
          /\ UNCHANGED <<browser, out, obs>>
    /\ UNCHANGED <<redis, origin>>

\* await response.json(), of the error body or of the answer: it rejects or resolves
ResponseJson(c) ==
    /\ pc[c] = "json"
    /\ \/ Finish(c, <<"An error ocurred, please try again">>)
       \/ IF ~loc[c].ok
          THEN Finish(c, <<"Oops! Something went wrong, Please try again">>)
          ELSE \E answer \in {<< >>, <<"an answer">>} :
                   Finish(c, IF answer = << >> THEN <<"Coudn't get find de answer">> ELSE answer)
    /\ UNCHANGED <<redis, origin>>

PageNext ==
    \/ \E text \in Typed : TypeMessage(text)
    \/ \E c \in Calls : PressEnter(c)
    \/ \E c \in Calls : ClickSend(c)
    \/ \E c \in Calls : FetchSettles(c)
    \/ \E c \in Calls : ResponseJson(c)

PageSpec == PageInit /\ [][PageNext]_vars

\* ------------------------------------------------------------------ store

\* the expiry of an entry elapses
Expire(key) ==
    /\ redis[key] # {}
    /\ redis' = [redis EXCEPT ![key] = {}]
    /\ origin' = IF key[1] = "scrapedContent" THEN [origin EXCEPT ![key[2]] = {}] ELSE origin
    /\ UNCHANGED <<pc, loc, browser, out, obs>>

Next ==
    \/ \E c \in Calls : CallScrapeURL(c)
    \/ \E c \in Calls : CallScrapeAndSearch(c)
    \/ \E c \in Calls : ScrapeURLCacheGet(c)
    \/ \E c \in Calls : GetRawHtmlCacheGet(c)
    \/ \E c \in Calls : DetermineScrapingMethod(c)
    \/ \E c \in Calls : ScrapeWithCheerio(c)
    \/ \E c \in Calls : PuppeteerLaunch(c)
    \/ \E c \in Calls : PuppeteerNavigate(c)
    \/ \E c \in Calls : PuppeteerClose(c)
    \/ \E c \in Calls : GetRawHtmlCacheSet(c)
    \/ \E c \in Calls : ScrapeURLCacheSet(c)
    \/ \E c \in Calls : SearchGoogle(c)
    \/ \E key \in Keys : Expire(key)

Spec == Init /\ [][Next]_vars


\* the functions that fetch a page or launch a browser, each invoked on its own
BrowserNext ==
    \/ \E c \in Calls : CallScrapeWithCheerio(c)
    \/ \E c \in Calls : CallScrapeWithPuppeteer(c)
    \/ \E c \in Calls : CallRouteScrapeURL(c)
    \/ \E c \in Calls : CallLegacyScrapeURL(c)
    \/ \E c \in Calls : ScrapeWithCheerio(c)
    \/ \E c \in Calls : PuppeteerLaunch(c)
    \/ \E c \in Calls : PuppeteerNavigate(c)
    \/ \E c \in Calls : PuppeteerClose(c)
    \/ \E c \in Calls : RouteLaunch(c)
    \/ \E c \in Calls : RouteNavigate(c)
    \/ \E c \in Calls : RouteClose(c)
    \/ \E c \in Calls : LegacyLaunch(c)
    \/ \E c \in Calls : LegacyNavigate(c)
    \/ \E c \in Calls : LegacyClose(c)

BrowserSpec == Init /\ [][BrowserNext]_vars

\* determineScrapingMethod invoked on its own, next to scrapeURL calls in which
\* getRawHtml invokes it
ClassifierNext ==
    \/ \E c \in Calls : CallDetermineScrapingMethod(c)
    \/ \E c \in Calls : CallScrapeURL(c)
    \/ \E c \in Calls : ScrapeURLCacheGet(c)
    \/ \E c \in Calls : GetRawHtmlCacheGet(c)
    \/ \E c \in Calls : DetermineScrapingMethod(c)
    \/ \E c \in Calls : ScrapeWithCheerio(c)
    \/ \E c \in Calls : PuppeteerLaunch(c)
    \/ \E c \in Calls : PuppeteerNavigate(c)
    \/ \E c \in Calls : PuppeteerClose(c)
    \/ \E c \in Calls : GetRawHtmlCacheSet(c)
    \/ \E c \in Calls : ScrapeURLCacheSet(c)

ClassifierSpec == Init /\ [][ClassifierNext]_vars

\* getTopResultsFromGoogle and searchGoogle, each invoked on its own
SearchNext ==
    \/ \E c \in Calls : CallGetTopResultsFromGoogle(c)
    \/ \E c \in Calls : CallSearchGoogle(c)
    \/ \E c \in Calls : GetTopResultsFromGoogle(c)

SearchSpec == Init /\ [][SearchNext]_vars

\* ===================================================================== claims

PipelineEntries == {"scrapeURL", "scrapeAndSearch"}

IsReturn(c) == pc[c] = "done" /\ out[c].kind = "return" /\ loc[c].entry \in PipelineEntries

FieldsEmpty(v) ==
    /\ v.title = EmptyText
    /\ v.metaDescription = EmptyText
    /\ v.headings.h1 = EmptyText
    /\ v.headings.h2 = EmptyText
    /\ v.content = EmptyText

PageRequests(c) == obs[c].probes + obs[c].fetches + obs[c].launches

\* C1: every ScrapedContent returned by scrapeURL or scrapeAndSearch either has a null
\* error, or has a non-null error and empty title, metaDescription, h1, h2 and content.
C1_ErrorExcludesFields ==
    \A c \in Calls :
        IsReturn(c) /\ out[c].value.error # Null => FieldsEmpty(out[c].value)

C3_FailedScrapeLeavesNoCache ==
    \A c \in Calls :
        /\ IsReturn(c) /\ HasError(out[c].value) /\ loc[c].url # ""
              => ContentKey(loc[c].url) \notin obs[c].wrote
        /\ obs[c].afterFailed => obs[c].served = {}

\* C4: no call of scrapeURL or scrapeAndSearch ends with an exception.
C4_NeverThrows ==
    \A c \in Calls :
        loc[c].entry \in PipelineEntries => out[c].kind # "throw"

\* C5: scrapeAndSearch with a query that is a URL never invokes the search.
C5_UrlQueryNeverSearches ==
    \A c \in Calls :
        loc[c].entry = "scrapeAndSearch" /\ IsUrl(loc[c].query) =>
            /\ pc[c] # "searchGoogle"
            /\ obs[c].searches = 0

\* C6: scrapeAndSearch with a query that is no URL, when the search resolves to null,
\* returns exactly the no-result object, requests no page, launches no browser and
\* writes no cache entry.
C6_NoResultObject ==
    \A c \in Calls :
        loc[c].entry = "scrapeAndSearch" /\ ~IsUrl(loc[c].query) /\ Null \in obs[c].resolved =>
            /\ pc[c] = "done"
            /\ out[c] = [kind |-> "return", html |-> NoHtml,
                         value |-> [url |-> "", title |-> EmptyText,
                                    headings |-> [h1 |-> EmptyText, h2 |-> EmptyText],
                                    metaDescription |-> EmptyText, content |-> EmptyText,
                                    error |-> "No results found for the query"]]
            /\ PageRequests(c) = 0
            /\ obs[c].wrote = {}

\* C6 witness: a free-text query whose search resolved to null has been answered
C6_Witness ==
    \E c \in Calls :
        /\ loc[c].entry = "scrapeAndSearch"
        /\ loc[c].query = "cats"
        /\ obs[c].resolved = {Null}
        /\ pc[c] = "done"

\* C7: the content of every returned ScrapedContent and of every structured-content
\* cache entry is at most 40,000 characters long.
C7_ContentAtMost40000 ==
    /\ \A c \in Calls : IsReturn(c) => out[c].value.content.n <= 40000
    /\ \A url \in Urls :
           redis[<<"scrapedContent", url>>] # {} =>
               Stored(redis[<<"scrapedContent", url>>])[6].n <= 40000

\* C7 witness: a page whose main text is longer than the cap has been scraped, cached
\* and returned with exactly 40,000 characters
C7_Witness ==
    \E c \in Calls :
        /\ IsReturn(c)
        /\ out[c].value.error = Null
        /\ out[c].value.content.n = 40000
        /\ ContentKey(loc[c].url) \in obs[c].wrote
        /\ redis[ContentKey(loc[c].url)] # {}

C9_FetcherNeverThrows ==
    \A c \in Calls :
        loc[c].entry \in FetcherEntries /\ pc[c] = "done" => out[c].kind = "return"

\* C10: no function that launched a browser returns or throws while that browser is
\* still open and no close of it was attempted.
C10_NoBrowserLeftOpen ==
    \A c \in Calls :
        pc[c] = "done" => browser[c] # "open"

\* C11: every step leaves each raw-markup entry a non-empty string of at most 1,000,000
\* characters stored with a 7-day expiry, and the step in which getRawHtml handles an
\* empty fetch result leaves the whole store unchanged.
C11_RawCacheEntries ==
    [][/\ \A url \in Urls :
             redis'[<<"scrapeRawHtml", url>>] # {} =>
                 \A e \in redis'[<<"scrapeRawHtml", url>>] :
                     /\ e.val.len >= 1
                     /\ e.val.len <= 1000000
                     /\ e.ex = 604800
       /\ \A c \in Calls :
             pc[c] = "grh_set" /\ loc[c].rawHtml.len = 0 /\ pc'[c] # "grh_set" =>
                 redis' = redis]_vars

\* C11 witness: markup longer than the limit has been stored cut to 1,000,000 characters
\* while another call, whose fetch came back empty, stored nothing
C11_Witness ==
    /\ \E url \in Urls :
          /\ redis[<<"scrapeRawHtml", url>>] # {}
          /\ Stored(redis[<<"scrapeRawHtml", url>>]).len = 1000000
    /\ \E c \in Calls :
          /\ IsReturn(c)
          /\ out[c].value.error = "Failed to fetch raw HTML."
          /\ obs[c].fetches = 1
          /\ obs[c].wrote = {}


\* C12: a scrapeURL call that finds the structured-content key of its URL gone, after a
\* call had written it, is not answered from the structured-content cache but goes on to
\* getRawHtml; if getRawHtml finds the raw-markup key gone as well, the call issues one
\* classification request and then a page fetch (a plain GET or a browser launch).
C12_ExpiredEntryIsRefetched ==
    \A c \in Calls :
        /\ ContentKey(loc[c].url) \in obs[c].expired =>
              /\ "scrapedContent" \notin obs[c].served
              /\ pc[c] # "su_get"
              /\ pc[c] = "done" => \/ RawKey(loc[c].url) \in obs[c].missed
                                   \/ "scrapeRawHtml" \in obs[c].served
                                   \/ /\ out[c].kind = "return"
                                      /\ HasError(out[c].value)
        /\ RawKey(loc[c].url) \in obs[c].expired =>
              /\ obs[c].served = {}
              /\ pc[c] \notin {"su_get", "grh_get"}
              /\ pc[c] # "probe" => obs[c].probes = 1
              /\ pc[c] \notin {"probe", "launch", "cheerio"} =>
                     obs[c].fetches + obs[c].launches >= 1

\* C12 witness: both entries of a URL were written and then expired, and a later call
\* has scraped the page again and returned its content
C12_Witness ==
    \E c \in Calls :
        /\ {RawKey(loc[c].url), ContentKey(loc[c].url)} \subseteq obs[c].expired
        /\ IsReturn(c)
        /\ out[c].value.error = Null
        /\ obs[c].probes = 1
        /\ obs[c].fetches = 1


\* C17: a call of determineScrapingMethod always ends by returning a verdict, after
\* exactly one probe GET, and the verdict is "puppeteer" whenever that GET failed.
C17_ProbeFailureMeansBrowser ==
    \A c \in Calls :
        loc[c].entry = "determineScrapingMethod" /\ pc[c] = "done" =>
            /\ out[c].kind = "return"
            /\ obs[c].probes = 1
            /\ ~out[c].probe.ok => out[c].method = "puppeteer"

\* C17 witness: a call of determineScrapingMethod whose probe GET failed has returned
C17_Witness ==
    \E c \in Calls :
        /\ loc[c].entry = "determineScrapingMethod"
        /\ pc[c] = "done"
        /\ out[c].kind = "return"
        /\ ~out[c].probe.ok

\* C18: for markup the probe fetched, the verdict of determineScrapingMethod is
\* "puppeteer" exactly when the markup contains one of the ten indicator substrings and
\* "cheerio" otherwise; in getRawHtml the verdict "cheerio" is followed by a plain GET
\* and no browser launch, the verdict "puppeteer" by a browser launch and no plain GET.
C18_VerdictFollowsIndicators ==
    \A c \in Calls :
        /\ loc[c].entry = "determineScrapingMethod" /\ pc[c] = "done" /\ out[c].probe.ok =>
              IF out[c].probe.has \cap {"window.__INITIAL_STATE__", "window.__NUXT__",
                                        "window.__NEXT_DATA__", "react", "angular", "vue",
                                        "_next/static", "data-reactroot", "data-v-",
                                        "<script src="} # {}
              THEN out[c].method = "puppeteer"
              ELSE out[c].method = "cheerio"
        /\ loc[c].entry = "scrapeURL" =>
              /\ pc[c] \in {"cheerio", "launch", "navigate", "close", "grh_set"} =>
                     loc[c].method \in {"cheerio", "puppeteer"}
              /\ loc[c].method = "cheerio" =>
                     /\ pc[c] \in {"cheerio", "grh_set"}
                     /\ obs[c].launches = 0
                     /\ browser[c] = "none"
                     /\ obs[c].fetches = IF pc[c] = "cheerio" THEN 0 ELSE 1
              /\ loc[c].method = "puppeteer" =>
                     /\ pc[c] \in {"launch", "navigate", "close", "grh_set"}
                     /\ obs[c].launches = IF pc[c] = "launch" THEN 0 ELSE 1
                     /\ browser[c] = "none" <=> pc[c] = "launch"
                     /\ obs[c].fetches = IF pc[c] \in {"launch", "navigate"} THEN 0 ELSE 1

\* C18 witness: determineScrapingMethod has answered "puppeteer" for markup that contains
\* data-reactroot and "cheerio" for markup without any indicator, and getRawHtml has
\* fetched a page with a plain GET after the verdict "cheerio"
C18_Witness ==
    /\ \E c \in Calls :
          /\ loc[c].entry = "determineScrapingMethod" /\ pc[c] = "done"
          /\ \/ "data-reactroot" \in out[c].probe.has /\ out[c].method = "puppeteer"
             \/ out[c].probe.ok /\ out[c].probe.has = {} /\ out[c].method = "cheerio"
    /\ \E c \in Calls :
          /\ loc[c].entry = "scrapeURL"
          /\ loc[c].method = "cheerio"
          /\ pc[c] = "grh_set"
          /\ obs[c].fetches = 1


\* the links of the model's result pages that lead back to the search engine: an absolute
\* URL on its host and a relative URL, which resolves against the result page
PointsToSearchEngine(link) ==
    link \in {"https://www.google.com/maps", "/search?q=cats&tbm=isch"}

\* C19: getTopResultsFromGoogle and searchGoogle always end by returning; after a failed
\* GET they return the empty list and null; a returned list has at most maxResults
\* entries; every returned result has a non-empty title and link; and no returned link
\* leads back to the search engine.
C19_SearchResolverResults ==
    \A c \in Calls :
        loc[c].entry \in {"getTopResultsFromGoogle", "searchGoogle"} /\ pc[c] = "done" =>
            /\ out[c].kind = "return"
            /\ ~out[c].answer.ok => out[c].results = << >> /\ out[c].link = Null
            /\ Len(out[c].results) <= loc[c].maxResults
            /\ \A i \in 1..Len(out[c].results) :
                  /\ out[c].results[i].title # ""
                  /\ out[c].results[i].link # ""
                  /\ ~PointsToSearchEngine(out[c].results[i].link)
            /\ out[c].link # Null =>
                  /\ out[c].link # ""
                  /\ ~PointsToSearchEngine(out[c].link)


IsResponse(c) == pc[c] = "done" /\ out[c].kind = "response"

\* the request carried a usable query without any URL in it
UrlLess(c) ==
    /\ loc[c].req.json = "object"
    /\ loc[c].req.has
    /\ loc[c].req.query # << >>
    /\ \A i \in 1..Len(loc[c].req.query) : loc[c].req.query[i] \notin {UrlA, UrlB}

\* C13: a request answered from the chat cache whose query holds a URL is answered from
\* an entry written for that URL; one whose query holds no URL is answered only from an
\* entry written for the same query text; every chat entry carries a 1-hour expiry.
C13_ChatCacheKey ==
    /\ \A c \in Calls :
          IsResponse(c) =>
              \A by \in obs[c].servedBy :
                  IF UrlLess(c)
                  THEN by = loc[c].req.query
                  ELSE extractFromQuery(by) = extractFromQuery(loc[c].req.query)
    /\ \A key \in DOMAIN redis : \A e \in redis[key] : e.ex = 3600

\* C14: a request whose body is an object without a query field, or with an empty query,
\* is answered 400 {"error": "Invalid input."} after no cache read, cache write, scrape
\* or completion call.
C14_MissingQueryIs400 ==
    \A c \in Calls :
        /\ loc[c].req.json = "object"
        /\ ~loc[c].req.has \/ loc[c].req.query = << >>
        /\ pc[c] \notin {"idle", "json"}
        => /\ pc[c] = "done"
           /\ out[c] = [kind |-> "response", status |-> 400, body |-> [error |-> "Invalid input."]]
           /\ obs[c].reads = 0
           /\ obs[c].writes = {}
           /\ obs[c].scrapes = 0
           /\ obs[c].llm = 0

\* C14 witness: one request without a query field and one with an empty query have been
\* answered
C14_Witness ==
    /\ \E c \in Calls : pc[c] = "done" /\ loc[c].req = [json |-> "object", has |-> FALSE, query |-> << >>]
    /\ \E c \in Calls : pc[c] = "done" /\ loc[c].req = [json |-> "object", has |-> TRUE, query |-> << >>]

\* C15: a request whose query holds no URL and that is not answered from the cache
\* never scrapes and passes only the empty context to the model; unless a cache or
\* model call failed it is answered 200 with an answer and with sources that name no
\* page (null in route.ts, the fixed no-sources text in part_003).
C15_NoUrlNoScrape ==
    \A c \in Calls :
        UrlLess(c) /\ obs[c].servedBy = {} =>
            /\ obs[c].scrapes = 0
            /\ obs[c].contexts \subseteq {[s |-> "", n |-> 0, ws |-> 0]}
            /\ pc[c] = "done" =>
                  /\ out[c].kind = "response"
                  /\ out[c].status = IF obs[c].failed = {} THEN 200 ELSE 500
                  /\ out[c].status = 200 =>
                        /\ obs[c].llm = 1
                        /\ obs[c].contexts # {}
                        /\ out[c].body.answer # ""
                        /\ out[c].body.sources \in
                              {Null, "No external sources used answer based in pre-trained knoledge"}

\* C15 witness: both revisions have answered a query without URL with 200 after a
\* completion call
C15_Witness ==
    \A rev \in {"route.ts", "part_003"} :
        \E c \in Calls :
            /\ loc[c].rev = rev
            /\ UrlLess(c)
            /\ IsResponse(c)
            /\ out[c].status = 200
            /\ obs[c].llm = 1

\* C16: a finished POST has produced a response (nothing was thrown) with status 200, 400
\* or 500; 200 carries answer and sources; 400 is given only to a missing or empty query;
\* the status is 500, with a body {error: message}, exactly when parsing the request, a
\* cache call, the scrape or the completion call failed.
C16_OneResponsePerRequest ==
    \A c \in Calls :
        pc[c] = "done" =>
            /\ out[c].kind = "response"
            /\ out[c].status \in {200, 400, 500}
            /\ out[c].status = 200 => DOMAIN out[c].body = {"answer", "sources"}
            /\ out[c].status = 400 => ~loc[c].req.has \/ loc[c].req.query = << >>
            /\ out[c].status = 500 <=> obs[c].failed # {}
            /\ out[c].status = 500 => DOMAIN out[c].body = {"error"} /\ out[c].body.error # ""

\* C16 witness: one request has been answered 200 after a scrape and a completion call,
\* another 500 after a failed completion call
C16_Witness ==
    /\ \E c \in Calls :
          /\ IsResponse(c) /\ out[c].status = 200
          /\ obs[c].scrapes = 1 /\ obs[c].llm = 1
    /\ \E c \in Calls :
          /\ IsResponse(c) /\ out[c].status = 500
          /\ obs[c].failed = {"completion"}


\* the 429 answer: body {error, retryAfter}, a Retry-After header, not passed on
Is429(o) ==
    /\ o.kind = "response"
    /\ o.status = 429
    /\ DOMAIN o.body = {"error", "retryAfter"}
    /\ "Retry-After" \in DOMAIN o.headers

\* the request went on, with the rate-limit headers set
IsPassedOn(o) ==
    /\ o.kind = "next"
    /\ {"X-RateLimit-Limit", "X-RateLimit-Remaining"} \subseteq DOMAIN o.headers

\* C20 as stated: a request is answered 429 when the limiter reported the limit breached,
\* and in every other case it passes through with the rate-limit headers.
C20_LimitedOrPassedOn ==
    \A c \in Calls :
        pc[c] = "done" =>
            IF \E result \in obs[c].limited : ~result.success
            THEN Is429(out[c])
            ELSE IsPassedOn(out[c])

\* C20 amended: a request is answered 429 exactly when the limiter reported the limit
\* breached, and passes through with the rate-limit headers exactly when the limiter
\* reported success; when reading the request headers or the limiter call threw, the
\* limiter reported nothing and the answer is 500 {error: "Internal server error"},
\* not passed on.
C20_LimitedPassedOnOrFailed ==
    \A c \in Calls :
        pc[c] = "done" =>
            /\ (\E result \in obs[c].limited : ~result.success) <=> Is429(out[c])
            /\ (\E result \in obs[c].limited : result.success) <=> IsPassedOn(out[c])
            /\ obs[c].limited = {} <=> obs[c].failed # {}
            /\ obs[c].failed # {} <=>
                  /\ out[c].kind = "response"
                  /\ out[c].status = 500
                  /\ out[c].body = [error |-> "Internal server error"]

\* C20 witness: of two requests of one client the first took the last slot of the window
\* and passed through, the second was answered 429
C20_Witness ==
    \E c, d \in Calls :
        /\ IsPassedOn(out[c])
        /\ out[c].headers["X-RateLimit-Remaining"] = "0"
        /\ Is429(out[d])
        /\ loc[c].fowardedFor # << >>
        /\ loc[d].fowardedFor # << >>


\* the call has started and has not ended
InFlight(c) == pc[c] \notin {"idle", "done"}

\* calls of scrapeURL itself, for one URL
SameUrlScrapes(c, d) ==
    /\ c # d
    /\ loc[c].entry = "scrapeURL"
    /\ loc[d].entry = "scrapeURL"
    /\ loc[c].url = loc[d].url

\* a valid ScrapedContent: no error, or an error with empty fields
WellFormed(v) == v.error = Null \/ FieldsEmpty(v)

\* the step stores, under at most one key, the whole value one call holds for that key
WritesOneCompleteValue ==
    \A key \in Keys :
        redis'[key] # redis[key] /\ redis'[key] # {} =>
            /\ \A other \in Keys \ {key} : redis'[other] = redis[other]
            /\ \E c \in Calls :
                  /\ loc[c].url = key[2]
                  /\ \/ /\ key[1] = "scrapeRawHtml"
                        /\ pc[c] = "grh_set"
                        /\ redis'[key] = {[val |-> HtmlSlice(loc[c].rawHtml, 1000000), ex |-> 604800]}
                     \/ /\ key[1] = "scrapedContent"
                        /\ pc[c] = "su_set"
                        /\ redis'[key] = {[val |-> JSONstringify(loc[c].sc), ex |-> 604800]}

\* a call that found both keys of its URL absent fetches for itself and, unless it
\* ended with an error, has written both keys itself
FetchesAndWritesItself(c) ==
    {RawKey(loc[c].url), ContentKey(loc[c].url)} \subseteq obs[c].missed =>
        /\ pc[c] # "probe" => obs[c].probes = 1
        /\ pc[c] \notin {"probe", "launch", "cheerio"} => obs[c].fetches + obs[c].launches >= 1
        /\ pc[c] = "done" /\ out[c].kind = "return" /\ out[c].value.error = Null =>
               {RawKey(loc[c].url), ContentKey(loc[c].url)} \subseteq obs[c].wrote

\* C21: while two scrapeURL calls for one URL are both in flight, a call that ends returns
\* a valid ScrapedContent for that URL, and every write stores the whole value of one call
\* under one key; a call that found the URL uncached probes and fetches for itself and
\* writes both keys itself; once both calls are done, a structured entry that is still
\* there is the value returned by a call that wrote it.
C21_ConcurrentScrapesRace ==
    /\ [][\A c, d \in Calls :
             SameUrlScrapes(c, d) /\ InFlight(c) /\ InFlight(d) =>
                 /\ pc'[c] = "done" =>
                        /\ out'[c].kind = "return"
                        /\ out'[c].value.url = loc[c].url
                        /\ WellFormed(out'[c].value)
                 /\ WritesOneCompleteValue]_vars
    /\ [](\A c, d \in Calls :
             SameUrlScrapes(c, d) =>
                 /\ FetchesAndWritesItself(c)
                 /\ pc[c] = "done" /\ pc[d] = "done" /\ redis[ContentKey(loc[c].url)] # {} =>
                        \E w \in {c, d} :
                            /\ ContentKey(loc[w].url) \in obs[w].wrote
                            /\ redis[ContentKey(loc[c].url)] = Entry(JSONstringify(out[w].value)))

\* scrapeAndSearch took its query for a URL and its direct scrapeURL call was left by an
\* exception (the call is no longer at that call site)
DirectScrapeFailed(c) ==
    /\ loc[c].entry = "scrapeAndSearch"
    /\ IsUrl(loc[c].query)
    /\ pc[c] # "idle"
    /\ loc[c].site # "direct"
    /\ ~(pc[c] = "done" /\ out[c].kind = "return")

\* C22: in one scrapeURL or scrapeAndSearch call the classifier probe, the page fetch,
\* the browser launch and the search request are each attempted at most once, a page is
\* fetched only after the probe, and once the direct scrape of a scrapeAndSearch call has
\* failed the call starts no search and no second scrape.
C22_NoRetry ==
    \A c \in Calls :
        loc[c].entry \in {"scrapeURL", "scrapeAndSearch"} =>
            /\ obs[c].probes <= 1
            /\ obs[c].fetches <= 1
            /\ obs[c].launches <= 1
            /\ obs[c].searches <= 1
            /\ obs[c].fetches = 1 => obs[c].probes = 1
            /\ DirectScrapeFailed(c) =>
                  /\ pc[c] = "done"
                  /\ obs[c].searches = 0

\* the normalized text of the i-th candidate selector of a markup
CandidateText(h, i) == cleanText(h.cand[i])

\* C23: the text extractMainContent returns is, when some candidate selector yields text,
\* the normalized text of one selector that no other selector's text exceeds in length
\* and that no earlier selector's text equals in length, and otherwise the normalized
\* body text; two calls on the same markup return the same text.
C23_LongestCandidateOrBody ==
    \A c \in Calls :
        loc[c].entry = "extractMainContent" /\ pc[c] = "done" =>
            LET h == out[c].of
                text == out[c].text
                n == Len(h.cand)
            IN  /\ out[c].kind = "return"
                /\ IF \E i \in 1..n : CandidateText(h, i).n > 0
                   THEN \E i \in 1..n :
                            /\ text = CandidateText(h, i)
                            /\ \A j \in 1..n : CandidateText(h, j).n <= text.n
                            /\ \A j \in 1..(i - 1) : CandidateText(h, j).n < text.n
                   ELSE text = [s |-> h.body.s, n |-> h.body.n - h.body.ws, ws |-> 0]
                            \/ (h.body.n - h.body.ws = 0 /\ text = EmptyText)
                /\ \A d \in Calls :
                       loc[d].entry = "extractMainContent" /\ pc[d] = "done" /\ out[d].of = h =>
                           out[d].text = text

\* C23 witness: the extractor has returned the earlier of two texts that tie, and the
\* body text of markup without any candidate text
C23_Witness ==
    /\ \E c \in Calls :
          /\ loc[c].entry = "extractMainContent" /\ pc[c] = "done"
          /\ out[c].of.id = "static"
          /\ out[c].text.s = "article"
          /\ CandidateText(out[c].of, 2).n = out[c].text.n
    /\ \E c \in Calls :
          /\ loc[c].entry = "extractMainContent" /\ pc[c] = "done"
          /\ out[c].of.id = "huge"
          /\ out[c].text.s = "body"

\* the values of the error member that scrapeURL itself produces
ScrapeURLErrors == {Null, "Failed to fetch raw HTML.", "Failed to scrape URL"}

\* C24: a scrapeAndSearch call that scraped a URL returns the ScrapedContent of scrapeURL
\* as it is, whether the URL was the query or came from the search: the result is for the
\* scraped URL and its error member is one that scrapeURL produces.
C24_ScrapeResultPassedThrough ==
    \A c \in Calls :
        /\ loc[c].entry = "scrapeAndSearch"
        /\ pc[c] = "done"
        /\ out[c].kind = "return"
        /\ loc[c].url # ""
        => /\ out[c].value.url = loc[c].url
           /\ out[c].value.error \in ScrapeURLErrors

\* C25: every structured-content entry in the store holds an object whose error is null
\* and whose url is the URL of its key, and in every step in which a call writes the
\* raw-markup key of its URL that call has not yet written the structured-content key.
C25_StructuredEntriesAndWriteOrder ==
    /\ [](\A url \in Urls :
             \A e \in redis[<<"scrapedContent", url>>] :
                 /\ JSONparse(e.val).error = Null
                 /\ JSONparse(e.val).url = url)
    /\ [][\A c \in Calls :
             <<"scrapeRawHtml", loc[c].url>> \in obs'[c].wrote \ obs[c].wrote =>
                 /\ <<"scrapedContent", loc[c].url>> \notin obs[c].wrote
                 /\ <<"scrapedContent", loc[c].url>> \notin obs'[c].wrote]_vars

\* C25 witness: a call has written the raw-markup key and then the structured-content
\* key of its URL, and the structured entry is in the store
C25_Witness ==
    \E c \in Calls :
        /\ loc[c].entry = "scrapeURL"
        /\ pc[c] = "done"
        /\ {<<"scrapeRawHtml", loc[c].url>>, <<"scrapedContent", loc[c].url>>} \subseteq obs[c].wrote
        /\ redis[<<"scrapedContent", loc[c].url>>] # {}
        /\ Truthy(JSONparse(Stored(redis[<<"scrapedContent", loc[c].url>>])).title)

\* C26: a step that puts an entry into the chat cache is the redis.set of a request whose
\* completion call has succeeded and which is answered 200 in that step; a step in which
\* a request is answered 400 or 500 leaves the store as it was, and such a request has
\* written nothing; a request answered from the cache has made no scrape, no completion
\* call and no write, and the step that answers it leaves the store as it was.
C26_CacheWrittenAfterCompletionOnly ==
    /\ [][\A key \in DOMAIN redis :
             redis'[key] # redis[key] /\ redis'[key] # {} =>
                 \E c \in Calls :
                     /\ pc[c] = "chat_set"
                     /\ loc[c].cacheKey = key
                     /\ obs[c].llm = 1
                     /\ obs[c].failed = {}
                     /\ loc[c].answer # ""
                     /\ out'[c].kind = "response"
                     /\ out'[c].status = 200]_vars
    /\ [][\A c \in Calls :
             pc[c] # "done" /\ pc'[c] = "done" =>
                 /\ out'[c].status \in {400, 500} => redis' = redis /\ obs'[c].writes = {}
                 /\ obs'[c].servedBy # {} => redis' = redis]_vars
    /\ [](\A c \in Calls :
             obs[c].servedBy # {} =>
                 /\ obs[c].scrapes = 0
                 /\ obs[c].llm = 0
                 /\ obs[c].writes = {}
                 /\ pc[c] = "done"
                 /\ out[c].status = 200)

\* C26 witness: a request has stored its answer after a completion call, and another has
\* been answered from that entry
C26_Witness ==
    \E c, d \in Calls :
        /\ IsResponse(c) /\ out[c].status = 200
        /\ obs[c].llm = 1
        /\ obs[c].writes # {}
        /\ IsResponse(d) /\ out[d].status = 200
        /\ obs[d].servedBy # {}
        /\ obs[d].reads = 1

\* request d has been answered 200 with an answer it stored, the entry it wrote is still
\* in the store as d wrote it, and request c, to the same revision, asks another question
\* with the same first URL
AsksAboutSameUrl(c, d) ==
    /\ c # d
    /\ loc[c].rev = loc[d].rev
    /\ pc[d] = "done"
    /\ out[d].kind = "response"
    /\ out[d].status = 200
    /\ obs[d].writes # {}
    /\ \E key \in obs[d].writes :
          redis[key] = {[val |-> <<out[d].body.answer, out[d].body.sources>>, ex |-> 3600,
                         by |-> loc[d].req.query]}
    /\ loc[c].req.query # loc[d].req.query
    /\ extractFromQuery(loc[c].req.query) # Null
    /\ extractFromQuery(loc[c].req.query) = extractFromQuery(loc[d].req.query)

\* C27: when a request looks up the chat cache while the entry of an earlier request with
\* the same first URL and another question is still there, the lookup, unless it fails,
\* answers the request 200 with the body the earlier request got, and the request makes
\* no scrape and no completion call.
C27_SameUrlSameAnswer ==
    [][\A c, d \in Calls :
          pc[c] = "chat_get" /\ pc'[c] # "chat_get" /\ AsksAboutSameUrl(c, d) =>
              /\ pc'[c] = "done"
              /\ out'[c].kind = "response"
              /\ obs'[c].llm = 0
              /\ obs'[c].scrapes = 0
              /\ IF "redis.get" \in obs'[c].failed
                 THEN out'[c].status = 500
                 ELSE /\ out'[c].status = 200
                      /\ out'[c].body = out[d].body
                      /\ obs'[c].servedBy = {loc[d].req.query}]_vars

\* C27 witness: two requests with the same first URL and different questions have got
\* the same body, the second from the entry of the first
C27_Witness ==
    \E c, d \in Calls :
        /\ AsksAboutSameUrl(c, d)
        /\ IsResponse(c)
        /\ out[c].status = 200
        /\ out[c].body = out[d].body
        /\ obs[c].llm = 0
        /\ obs[d].llm = 1
        /\ obs[c].servedBy = {loc[d].req.query}

\* C28: a request during which the header lookup or the limiter call threw is answered
\* 500 {error: "Internal server error"} and is not passed on; the limiter call of a
\* request without x-forwarded-for header counts against the one identifier 'Unknowns',
\* and against no other.
C28_FailsClosed ==
    /\ [](\A c \in Calls :
             obs[c].failed # {} =>
                 /\ pc[c] = "done"
                 /\ out[c].kind = "response"
                 /\ out[c].kind # "next"
                 /\ out[c].status = 500
                 /\ out[c].body = [error |-> "Internal server error"]
                 /\ obs[c].limited = {})
    /\ [][\A c \in Calls :
             /\ pc[c] = "limit"
             /\ loc[c].fowardedFor = << >>
             /\ obs'[c].limited # {}
             => /\ "Unknowns" \in DOMAIN redis
                /\ \A client \in DOMAIN redis \ {"Unknowns"} : redis'[client] = redis[client]
                /\ obs'[c].limited = {[success |-> redis["Unknowns"] < 10,
                                       remaining |-> IF redis["Unknowns"] < 10
                                                     THEN 9 - redis["Unknowns"] ELSE 0,
                                       reset |-> 10000]}
                /\ redis'["Unknowns"] = IF redis["Unknowns"] < 10 THEN redis["Unknowns"] + 1
                                                                  ELSE redis["Unknowns"]]_vars

\* C28 witness: one request was answered 500 after its limiter call threw, and another,
\* without x-forwarded-for header, was refused because the window of 'Unknowns' was full
C28_Witness ==
    /\ \E c \in Calls :
          /\ obs[c].failed = {"limit"}
          /\ out[c].kind = "response"
          /\ out[c].status = 500
    /\ \E d \in Calls :
          /\ loc[d].fowardedFor = << >>
          /\ Is429(out[d])
          /\ redis["Unknowns"] = 10

\* a request of the page is outstanding: a handleSend is between its fetch and its end
Outstanding(c) == pc[c] \in {"fetch", "json"}

\* C29: in the chat page isLoading is true exactly while some request is outstanding.
C29_LoadingWhileInFlight ==
    browser.isLoading <=> \E c \in Calls : Outstanding(c)

\* the messages a handleSend may leave behind: a user message with the text that was
\* sent and, once the request has finished, one ai message after it
OneUserThenOneAi(c) ==
    LET appended == obs[c].appended
    IN  /\ Len(appended) = IF pc[c] = "done" THEN 2 ELSE 1
        /\ appended[1] = [role |-> "user", content |-> loc[c].message]
        /\ pc[c] = "done" => appended[2].role = "ai"

\* C30: the message list only grows at its end; a handleSend with a non-blank message has
\* sent one request and appended one user message and, once the request has finished, one
\* ai message after it, and nothing else; a handleSend with a blank message has appended
\* nothing and sent no request.
C30_OneUserOneAiPerSend ==
    /\ [][/\ Len(browser'.messages) >= Len(browser.messages)
          /\ SubSeq(browser'.messages, 1, Len(browser.messages)) = browser.messages]_vars
    /\ [](\A c \in Calls :
             loc[c].entry = "handleSend" =>
                 IF \A i \in 1..Len(loc[c].message) : loc[c].message[i] = " "
                 THEN obs[c].appended = << >> /\ obs[c].requests = 0 /\ pc[c] = "done"
                 ELSE obs[c].requests = 1 /\ OneUserThenOneAi(c))

====
